---------------------------- MODULE Spec2Model ----------------------------
(***************************************************************************)
(* Model of Homework_1/Version.py: the class Version (validation of a      *)
(* version string, its decomposition into major, minor, patch and          *)
(* prerelease, equality and ordering) and the loop of main() that builds   *)
(* Version objects from strings and compares them.                         *)
(*                                                                         *)
(* A Python str is a sequence of one-character strings: "1.0.0-a" is       *)
(* <<"1", ".", "0", ".", "0", "-", "a">>.                                  *)
(***************************************************************************)
EXTENDS Integers, Sequences, FiniteSets, TLC

VARIABLES
    versions,   \* the Version objects built so far, in order of construction
    arg,        \* the string handed to the last call of Version(...)
    err,        \* "none", or "ValueError" once a constructor has raised
    result      \* NoResult, or the outcome of the comparisons of the objects

vars == <<versions, arg, err, result>>

(***************************************************************************)
(* Bounds of the model.                                                    *)
(***************************************************************************)
\* Longest string handed to the constructor when arbitrary strings are parsed.
MaxTextLen == 6
\* Longest text after the hyphen of a prerelease when two versions are compared.
MaxPrereleaseLen == 3
\* Longest text after the hyphen or the plus when three versions are compared.
MaxSuffixLen == 1

(***************************************************************************)
(* Characters.  The model's alphabet: two digits, a letter, the three      *)
(* punctuation characters of the grammar and the newline, a character      *)
(* outside the grammar.  On this alphabet the pattern's \d and [0-9],      *)
(* str.isdigit() and the digits int() reads are the same set; in Python    *)
(* \d, isdigit() and int() also take the decimal digits of other scripts.  *)
(***************************************************************************)
Digits == {"0", "1"}
Letters == {"a"}
Newline == "\n"

\* The code point of a character: what Python's str comparison orders by.
Ord(c) ==
    CASE c = "\n" -> 10
      [] c = "+" -> 43
      [] c = "-" -> 45
      [] c = "." -> 46
      [] c = "0" -> 48
      [] c = "1" -> 49
      [] c = "a" -> 97

\* The value of a decimal digit.
DigitValue(c) == Ord(c) - 48

Min(m, n) == IF m < n THEN m ELSE n

\* Python's a < b on two str: lexicographic by code point, a proper prefix first.
StrLess(a, b) ==
    \E i \in 1..(Min(Len(a), Len(b)) + 1) :
        /\ \A k \in 1..(i - 1) : a[k] = b[k]
        /\ \/ i = Len(a) + 1 /\ i <= Len(b)
           \/ i <= Len(a) /\ i <= Len(b) /\ Ord(a[i]) < Ord(b[i])

\* str.isdigit(): at least one character, and all of them digits.
IsDigitStr(s) == Len(s) > 0 /\ \A k \in 1..Len(s) : s[k] \in Digits

\* int(s) of a string of digits (leading zeros are accepted and ignored).
RECURSIVE ToInt(_)
ToInt(s) ==
    IF s = <<>> THEN 0
    ELSE 10 * ToInt(SubSeq(s, 1, Len(s) - 1)) + DigitValue(s[Len(s)])

\* str.split(sep, maxsplit) and re.split(r'[...]', s): the pieces of s between
\* the first maxsplit separators, empty pieces kept; split of '' is [''].
RECURSIVE SplitFrom(_, _, _, _)
SplitFrom(s, seps, maxsplit, piece) ==
    IF s = <<>> THEN <<piece>>
    ELSE IF s[1] \in seps /\ maxsplit > 0
         THEN <<piece>> \o SplitFrom(Tail(s), seps, maxsplit - 1, <<>>)
         ELSE SplitFrom(Tail(s), seps, maxsplit, Append(piece, s[1]))

Split(s, seps, maxsplit) == SplitFrom(s, seps, maxsplit, <<>>)

\* The length of the longest prefix of s made of digits: what the greedy \d+
\* (or \d*) consumes at the start of s.
RECURSIVE DigitPrefixLen(_)
DigitPrefixLen(s) ==
    IF s # <<>> /\ s[1] \in Digits THEN 1 + DigitPrefixLen(Tail(s)) ELSE 0

(***************************************************************************)
(* Version._is_match: the regular expression of semver.org, given to       *)
(* re.match.  A string matches when it can be cut into the pieces the      *)
(* pattern names.                                                          *)
(***************************************************************************)
\* 0|[1-9]\d*
NumericIdentifier(s) ==
    \/ s = <<"0">>
    \/ Len(s) > 0 /\ s[1] \in Digits \ {"0"} /\ \A k \in 2..Len(s) : s[k] \in Digits

\* [0-9a-zA-Z-]+
BuildIdentifier(s) ==
    Len(s) > 0 /\ \A k \in 1..Len(s) : s[k] \in Digits \cup Letters \cup {"-"}

\* 0|[1-9]\d*|\d*[a-zA-Z-][0-9a-zA-Z-]*
PrereleaseIdentifier(s) ==
    \/ NumericIdentifier(s)
    \/ /\ BuildIdentifier(s)
       /\ \E k \in 1..Len(s) : s[k] \in Letters \cup {"-"}

\* (0|[1-9]\d*)\.(0|[1-9]\d*)\.(0|[1-9]\d*)
CorePattern(s) ==
    LET parts == Split(s, {"."}, Len(s))
    IN  Len(parts) = 3 /\ \A k \in 1..3 : NumericIdentifier(parts[k])

\* (?:-(identifier(?:\.identifier)*))?
PrereleasePattern(s) ==
    \/ s = <<>>
    \/ /\ s # <<>>
       /\ s[1] = "-"
       /\ LET ids == Split(Tail(s), {"."}, Len(s))
          IN  \A k \in 1..Len(ids) : PrereleaseIdentifier(ids[k])

\* (?:\+([0-9a-zA-Z-]+(?:\.[0-9a-zA-Z-]+)*))?
BuildPattern(s) ==
    \/ s = <<>>
    \/ /\ s # <<>>
       /\ s[1] = "+"
       /\ LET ids == Split(Tail(s), {"."}, Len(s))
          IN  \A k \in 1..Len(ids) : BuildIdentifier(ids[k])

\* The pattern between ^ and $: core, optional prerelease, optional build.
PatternBody(s) ==
    \E i \in 0..Len(s) :
        /\ CorePattern(SubSeq(s, 1, i))
        /\ \E j \in i..Len(s) :
              /\ PrereleasePattern(SubSeq(s, i + 1, j))
              /\ BuildPattern(SubSeq(s, j + 1, Len(s)))

\* $ without re.MULTILINE matches at the end of the string and also just
\* before a newline that is the string's last character.
_is_match(version) ==
    \/ PatternBody(version)
    \/ /\ Len(version) > 0
       /\ version[Len(version)] = Newline
       /\ PatternBody(SubSeq(version, 1, Len(version) - 1))

(***************************************************************************)
(* Version._parse_parts                                                    *)
(***************************************************************************)
\* re.sub(r'^\d+-?', '', s): the leading digits and one hyphen after them go.
StripPatch(s) ==
    LET n == DigitPrefixLen(s)
    IN  IF n = 0 THEN s
        ELSE IF n < Len(s) /\ s[n + 1] = "-"
             THEN SubSeq(s, n + 2, Len(s))
             ELSE SubSeq(s, n + 1, Len(s))

\* re.split(r'[.-]', prerelease_parts), then the pop of a leading ''.
PrereleaseTuple(prerelease_parts) ==
    LET prerelease == Split(prerelease_parts, {".", "-"}, Len(prerelease_parts))
    IN  IF prerelease[1] = <<>> THEN Tail(prerelease) ELSE prerelease

_parse_parts(version) ==
    LET parts == Split(version, {"."}, 2)
        patch_prerelease == parts[3]
        patch == SubSeq(patch_prerelease, 1, DigitPrefixLen(patch_prerelease))
    IN  [version |-> version,
         major |-> ToInt(parts[1]),
         minor |-> ToInt(parts[2]),
         patch |-> ToInt(patch),
         prerelease |-> PrereleaseTuple(StripPatch(patch_prerelease))]

(***************************************************************************)
(* Version.__eq__, Version.__lt__, Version._compare_prerelease_less_than   *)
(***************************************************************************)
\* Python's == on (major, minor, patch, prerelease): field by field.
__eq__(self, other) ==
    /\ self.major = other.major
    /\ self.minor = other.minor
    /\ self.patch = other.patch
    /\ self.prerelease = other.prerelease

\* Python's < on two tuples of int of the same length: the first unequal
\* element decides.
IntTupleLess(x, y) ==
    \E i \in 1..Len(x) :
        /\ \A k \in 1..(i - 1) : x[k] = y[k]
        /\ x[i] < y[i]

\* IdentifierLess with two numeric identifiers compared as strings.
IdentifierLessAsStrings(a, b) ==
    IF IsDigitStr(a) /\ IsDigitStr(b) THEN StrLess(a, b)
    ELSE IF IsDigitStr(a) THEN TRUE
    ELSE IF IsDigitStr(b) THEN FALSE
    ELSE StrLess(a, b)

\* Lines 48-54: the order of two identifiers a # b met by the zip loop.
IdentifierLess(a, b) ==
    IF IsDigitStr(a) /\ IsDigitStr(b) THEN ToInt(a) < ToInt(b)
    ELSE IF IsDigitStr(a) THEN TRUE
    ELSE IF IsDigitStr(b) THEN FALSE
    ELSE StrLess(a, b)

\* The first pair of identifiers that differ decides; 0 when none does.
FirstDifference(pre1, pre2) ==
    LET differ == {k \in 1..Min(Len(pre1), Len(pre2)) : pre1[k] # pre2[k]}
    IN  IF differ = {} THEN 0 ELSE CHOOSE d \in differ : \A e \in differ : d <= e

\* _compare_prerelease_less_than without "if not pre2: return True".
_compare_without_release_rule(pre1, pre2) ==
    IF pre1 = <<>> THEN FALSE
    ELSE LET k == FirstDifference(pre1, pre2)
         IN  IF k # 0 THEN IdentifierLess(pre1[k], pre2[k])
             ELSE Len(pre1) < Len(pre2)

\* _compare_prerelease_less_than without "if not pre1: return False".
_compare_without_empty_guard(pre1, pre2) ==
    IF pre1 # <<>> /\ pre2 = <<>> THEN TRUE
    ELSE LET k == FirstDifference(pre1, pre2)
         IN  IF k # 0 THEN IdentifierLess(pre1[k], pre2[k])
             ELSE Len(pre1) < Len(pre2)

\* _compare_prerelease_less_than ending as its comment says, "longer
\* prerelease has less value": return len(pre1) > len(pre2).
_compare_longer_is_less(pre1, pre2) ==
    IF pre1 = <<>> THEN FALSE
    ELSE IF pre2 = <<>> THEN TRUE
    ELSE LET k == FirstDifference(pre1, pre2)
         IN  IF k # 0 THEN IdentifierLess(pre1[k], pre2[k])
             ELSE Len(pre1) > Len(pre2)

_compare_prerelease_less_than(pre1, pre2) ==
    IF pre1 = <<>> THEN FALSE
    ELSE IF pre2 = <<>> THEN TRUE
    ELSE LET k == FirstDifference(pre1, pre2)
         IN  IF k # 0 THEN IdentifierLess(pre1[k], pre2[k])
             ELSE Len(pre1) < Len(pre2)

__lt__(self, other) ==
    IF <<self.major, self.minor, self.patch>> # <<other.major, other.minor, other.patch>>
    THEN IntTupleLess(<<self.major, self.minor, self.patch>>,
                      <<other.major, other.minor, other.patch>>)
    ELSE _compare_prerelease_less_than(self.prerelease, other.prerelease)

\* functools.total_ordering derives > from < and ==:
\* a > b is (not a < b) and a != b.
__gt__(self, other) == ~__lt__(self, other) /\ ~__eq__(self, other)

(***************************************************************************)
(* The program: main() builds Version objects from strings and compares    *)
(* them.                                                                   *)
(***************************************************************************)
NoResult == [done |-> FALSE]

Init ==
    /\ versions = <<>>
    /\ arg = <<>>
    /\ err = "none"
    /\ result = NoResult

\* Version.__init__: a string that does not match raises ValueError, and main()
\* has no handler, so the exception ends the program and its objects with it;
\* a string that matches is kept and decomposed.
New(version) ==
    /\ arg' = version
    /\ IF ~_is_match(version)
       THEN /\ err' = "ValueError"
            /\ versions' = <<>>
       ELSE /\ err' = err
            /\ versions' = Append(versions, _parse_parts(version))
    /\ UNCHANGED result

\* The next Version(...) of a program that builds `operands` objects from
\* strings of `texts`.
Construct(texts, operands) ==
    /\ err = "none"
    /\ Len(versions) < operands
    /\ \E version \in texts : New(version)

\* The comparisons of main()'s loop body, on every pair of the objects built.
Compare(operands) ==
    /\ err = "none"
    /\ Len(versions) = operands
    /\ ~result.done
    /\ result' =
         [done |-> TRUE,
          lt |-> [i \in 1..operands |-> [j \in 1..operands |->
                     __lt__(versions[i], versions[j])]],
          eq |-> [i \in 1..operands |-> [j \in 1..operands |->
                     __eq__(versions[i], versions[j])]],
          gt |-> [i \in 1..operands |-> [j \in 1..operands |->
                     __gt__(versions[i], versions[j])]]]
    /\ UNCHANGED <<versions, arg, err>>

(***************************************************************************)
(* The strings the programs are run on.                                    *)
(***************************************************************************)
\* Every string over an alphabet up to a length.
Strings(alphabet, maxlen) == UNION {[1..n -> alphabet] : n \in 0..maxlen}

\* Parsing alone: every string over the alphabet.
ParseAlphabet == Digits \cup Letters \cup {"-", ".", "+", Newline}
ParseTexts == Strings(ParseAlphabet, MaxTextLen)

\* Two versions of one core: the core alone, and the core, a hyphen and every
\* string over the characters of a prerelease (the empty one included).
PairCore == <<"1", ".", "0", ".", "0">>
PairAlphabet == Digits \cup Letters \cup {"-", "."}
PairTexts ==
    {PairCore} \cup
    {PairCore \o <<"-">> \o body : body \in Strings(PairAlphabet, MaxPrereleaseLen)}

\* Three versions of two cores: the core alone, and the core, a hyphen or a
\* plus and every string over the characters of an identifier.
TripleCores == {<<"0", ".", "1", ".", "0">>, <<"1", ".", "0", ".", "0">>}
TripleAlphabet == {"1"} \cup Letters \cup {"-"}
TripleTexts ==
    TripleCores \cup
    {core \o <<sep>> \o body :
        core \in TripleCores, sep \in {"-", "+"},
        body \in Strings(TripleAlphabet, MaxSuffixLen)}

(***************************************************************************)
(* Specifications.                                                         *)
(***************************************************************************)
NextParse == Construct(ParseTexts, 1)
SpecParse == Init /\ [][NextParse]_vars

Next == Construct(PairTexts, 2) \/ Compare(2)
Spec == Init /\ [][Next]_vars

NextTriple == Construct(TripleTexts, 3) \/ Compare(3)
SpecTriple == Init /\ [][NextTriple]_vars

(***************************************************************************)
(* The vocabulary of the claims: a version string read by the grammar      *)
(* MAJOR.MINOR.PATCH[-PRERELEASE][+BUILD], whatever the code makes of it.  *)
(***************************************************************************)
\* The string matches the semver grammar in its entirety.
MatchesGrammar(text) == PatternBody(text)

\* The position of the first character of text that is in chars; 0 if none.
FirstOf(text, chars) ==
    IF \A k \in 1..Len(text) : text[k] \notin chars THEN 0
    ELSE CHOOSE k \in 1..Len(text) :
            text[k] \in chars /\ \A e \in 1..(k - 1) : text[e] \notin chars

HasBuild(text) == \E k \in 1..Len(text) : text[k] = "+"

\* The string without its '+build' suffix.
WithoutBuild(text) ==
    IF HasBuild(text) THEN SubSeq(text, 1, FirstOf(text, {"+"}) - 1) ELSE text

\* The prerelease identifiers of the string: the text between the first
\* hyphen and the build suffix, split on '.' only.
DotIdentifiers(text) ==
    LET t == WithoutBuild(text)
        h == FirstOf(t, {"-"})
    IN  IF h = 0 THEN <<>> ELSE Split(SubSeq(t, h + 1, Len(t)), {"."}, Len(t))

\* An identifier of digits only, and one with a letter or a hyphen.
IsNumericId(id) == id # <<>> /\ \A k \in 1..Len(id) : id[k] \in Digits
IsAlphanumericId(id) == \E k \in 1..Len(id) : id[k] \in Letters \cup {"-"}

IsStrictPrefix(p, q) == Len(p) < Len(q) /\ \A k \in 1..Len(p) : p[k] = q[k]

\* The string of the i-th object, its identifiers, and the objects compared.
Text(i) == versions[i].version
Ids(i) == DotIdentifiers(Text(i))
Compared == IF result.done THEN 1..Len(versions) ELSE {}

SameCore(i, j) ==
    /\ versions[i].major = versions[j].major
    /\ versions[i].minor = versions[j].minor
    /\ versions[i].patch = versions[j].patch

\* Two objects without build metadata and of one core.
Comparable(i, j) ==
    /\ ~HasBuild(Text(i)) /\ ~HasBuild(Text(j))
    /\ SameCore(i, j)

(***************************************************************************)
(* The claims.  Every object of Spec and SpecTriple is built from a string *)
(* of the grammar: their alphabets hold no character outside it.           *)
(***************************************************************************)

\* C1: build metadata plays no role in comparison: replacing, adding or
\* removing the '+build' suffix of an operand changes neither == nor <; two
\* versions that differ only in build metadata are equal and neither is less.
C1_BuildMetadataIgnored ==
    \A i \in Compared : \A j \in Compared : \A k \in Compared :
        WithoutBuild(Text(j)) = WithoutBuild(Text(k)) =>
            /\ result.eq[i][j] = result.eq[i][k]
            /\ result.lt[i][j] = result.lt[i][k]
            /\ result.lt[j][i] = result.lt[k][i]

\* C2: two versions without build metadata are equal if and only if their
\* major, minor and patch are equal and their prerelease identifiers, split on
\* '.' only, are the same sequence.
C2_EqualIffSameIdentifiers ==
    \A i \in Compared : \A j \in Compared :
        (~HasBuild(Text(i)) /\ ~HasBuild(Text(j))) =>
            (result.eq[i][j] <=> (SameCore(i, j) /\ Ids(i) = Ids(j)))

\* C3: the order is total and consistent with equality: exactly one of a < b,
\* a == b, b < a holds, and a > b and b > a never both hold.
C3_Trichotomy ==
    \A i \in Compared : \A j \in Compared :
        /\ result.lt[i][j] \/ result.eq[i][j] \/ result.lt[j][i]
        /\ ~(result.lt[i][j] /\ result.eq[i][j])
        /\ ~(result.lt[j][i] /\ result.eq[i][j])
        /\ ~(result.lt[i][j] /\ result.lt[j][i])
        /\ ~(result.gt[i][j] /\ result.gt[j][i])

\* C4: Version(text) raises and produces no Version for every string that does
\* not match the grammar in its entirety: every Version there is was built from
\* a string of the grammar.
C4_RejectsNonGrammar ==
    \A i \in 1..Len(versions) : MatchesGrammar(Text(i))

\* C5: with equal cores and no build metadata, a version with a prerelease is
\* less than the version without one, and not the other way round.
C5_PrereleaseBelowRelease ==
    \A i \in Compared : \A j \in Compared :
        (Comparable(i, j) /\ Ids(i) # <<>> /\ Ids(j) = <<>>) =>
            (result.lt[i][j] /\ ~result.lt[j][i])

C5_Witness ==
    /\ result.done
    /\ Text(1) = PairCore \o <<"-", "a", ".", "1">>
    /\ Text(2) = PairCore
    /\ result.lt[1][2] /\ ~result.lt[2][1]

\* C6: when the first identifiers that differ are a numeric one in a and an
\* alphanumeric one in b, a < b and not b < a.
C6_NumericBelowAlphanumeric ==
    \A i \in Compared : \A j \in Compared :
        LET p == Ids(i)
            q == Ids(j)
            k == FirstDifference(p, q)
        IN  ( /\ Comparable(i, j)
              /\ k # 0
              /\ IsNumericId(p[k])
              /\ IsAlphanumericId(q[k]) ) =>
                (result.lt[i][j] /\ ~result.lt[j][i])

\* C7: when the first identifiers that differ are both alphanumeric, a < b
\* exactly when a's identifier precedes b's as a string, hyphens and digits
\* included.
C7_AlphanumericLexical ==
    \A i \in Compared : \A j \in Compared :
        LET p == Ids(i)
            q == Ids(j)
            k == FirstDifference(p, q)
        IN  ( /\ Comparable(i, j)
              /\ k # 0
              /\ IsAlphanumericId(p[k])
              /\ IsAlphanumericId(q[k]) ) =>
                (result.lt[i][j] <=> StrLess(p[k], q[k]))

\* C8: when the first identifiers that differ are both numeric, a < b exactly
\* when a's identifier is the smaller integer.
C8_NumericAsIntegers ==
    \A i \in Compared : \A j \in Compared :
        LET p == Ids(i)
            q == Ids(j)
            k == FirstDifference(p, q)
        IN  ( /\ Comparable(i, j)
              /\ k # 0
              /\ IsNumericId(p[k])
              /\ IsNumericId(q[k]) ) =>
                (result.lt[i][j] <=> ToInt(p[k]) < ToInt(q[k]))

\* 11 < 100 as integers, "100" < "11" as strings.
C8_Witness ==
    /\ result.done
    /\ Text(1) = PairCore \o <<"-", "1", "1">>
    /\ Text(2) = PairCore \o <<"-", "1", "0", "0">>
    /\ StrLess(Ids(2)[1], Ids(1)[1])
    /\ result.lt[1][2] /\ ~result.lt[2][1]

=============================================================================
